---- MODULE Spec2Model ----
(***************************************************************************)
(* webcake-data: the fluent QueryBuilder, the DBModel verbs and the        *)
(* DBConnection request translation, as a state machine.                   *)
(*                                                                         *)
(* JavaScript values are tagged records, so that values of different      *)
(* kinds can be compared:                                                  *)
(*   undefined, null, booleans, numbers, strings, arrays, objects.        *)
(* An object is the ordered list of its own (key, value) entries, in the  *)
(* order Object.keys / JSON.stringify enumerate them.                      *)
(***************************************************************************)
EXTENDS Integers, Sequences, FiniteSets, TLC

VARIABLES
    qb,       \* the QueryBuilder instance under observation (NoBuilder before find())
    wire,     \* the requests handed to fetch() so far, in order
    pending,  \* the asynchronous calls awaiting the transport's answer
    outcome,  \* how the last settled call settled (value or error)
    thrown,   \* the exception the last synchronous call threw, if any
    calls,    \* the calls made by the caller so far, in order (observation only)
    findArgs, \* the filters given to the find() that made qb (observation only)
    self,     \* which instance qb is: the number of the find() that constructed it
    made,     \* the number of QueryBuilder instances constructed so far
    other     \* a second builder the caller holds, with its number and its find()

vars == <<qb, wire, pending, outcome, thrown, calls, findArgs, self, made, other>>

(***************************************************************************)
(* Bounds of the model.                                                    *)
(***************************************************************************)
MaxCalls == 2        \* calls made on the builder in the free specification
ScenarioLen == 6     \* calls made on the builder in the scenario specification
MaxRecords == 3      \* length of a list of records answered by the transport

(***************************************************************************)
(* JavaScript values.                                                      *)
(***************************************************************************)
Undef == [undef |-> TRUE]
Null == [nul |-> TRUE]
Bool(b) == [bool |-> b]
Num(n) == [num |-> n]
Str(s) == [str |-> s]
Arr(a) == [arr |-> a]
Obj(e) == [obj |-> e]
Text(t) == [text |-> t]      \* a string holding JSON text, as its list of tokens
Entry(key, val) == [k |-> key, v |-> val]

IsUndef(x) == DOMAIN x = {"undef"}
IsNull(x) == DOMAIN x = {"nul"}
IsBool(x) == DOMAIN x = {"bool"}
IsNum(x) == DOMAIN x = {"num"}
IsStr(x) == DOMAIN x = {"str"}
IsArr(x) == DOMAIN x = {"arr"}
IsObj(x) == DOMAIN x = {"obj"}
IsText(x) == DOMAIN x = {"text"}

\* ToBoolean: the test of `if (x)` and of `x || y`.
Truthy(x) ==
    IF IsUndef(x) \/ IsNull(x) THEN FALSE
    ELSE IF IsBool(x) THEN x.bool
    ELSE IF IsNum(x) THEN x.num # 0
    ELSE IF IsStr(x) THEN x.str # ""
    ELSE IF IsText(x) THEN x.text # <<>>
    ELSE TRUE

\* ToPropertyKey: the key under which `o[x] = ...` and `{[x]: ...}` store.
PropertyKey(x) ==
    IF IsStr(x) THEN x.str
    ELSE IF IsNum(x) THEN ToString(x.num)
    ELSE IF IsUndef(x) THEN "undefined"
    ELSE IF IsNull(x) THEN "null"
    ELSE IF IsBool(x) THEN (IF x.bool THEN "true" ELSE "false")
    ELSE "[object]"

\* Object.keys(o), ordered.
Keys(o) == [i \in 1..Len(o.obj) |-> o.obj[i].k]
HasKey(o, key) == \E i \in 1..Len(o.obj) : o.obj[i].k = key
\* o[key]
Get(o, key) ==
    IF HasKey(o, key)
    THEN o.obj[CHOOSE i \in 1..Len(o.obj) : o.obj[i].k = key].v
    ELSE Undef
\* The keys that are array indices ("0", "1", ...): an object enumerates them
\* first, in ascending order, before its other keys.
IndexKeys == {ToString(n) : n \in 0..99}
IndexOf(key) == CHOOSE n \in 0..99 : ToString(n) = key
\* o[key] = val : an existing key keeps its place; a new key goes last, or,
\* when it is an array index, before the first key that is not a smaller index.
Put(o, key, val) ==
    IF HasKey(o, key)
    THEN Obj([i \in 1..Len(o.obj) |->
                 IF o.obj[i].k = key THEN Entry(key, val) ELSE o.obj[i]])
    ELSE IF key \in IndexKeys
    THEN LET smaller == {i \in 1..Len(o.obj) :
                            /\ o.obj[i].k \in IndexKeys
                            /\ IndexOf(o.obj[i].k) < IndexOf(key)}
             n == Cardinality(smaller)
         IN  Obj(SubSeq(o.obj, 1, n) \o <<Entry(key, val)>>
                 \o SubSeq(o.obj, n + 1, Len(o.obj)))
    ELSE Obj(Append(o.obj, Entry(key, val)))
\* x.length
Length(x) ==
    IF IsArr(x) THEN Num(Len(x.arr)) ELSE Undef
\* Object.keys(x).length
KeyCount(x) ==
    IF IsObj(x) THEN Len(x.obj)
    ELSE IF IsArr(x) THEN Len(x.arr)
    ELSE 0

(***************************************************************************)
(* JSON.stringify, as the list of tokens of the text it produces.  An      *)
(* object lists its entries in key order and leaves out the entries whose  *)
(* value is undefined; an array writes undefined as null.                  *)
(***************************************************************************)
Quote(s) == "\"" \o s \o "\""

RECURSIVE JSONStringify(_)
RECURSIVE JSONArrayItems(_, _)
RECURSIVE JSONObjectEntries(_, _)

JSONArrayItems(a, i) ==
    IF i > Len(a) THEN <<>>
    ELSE (IF i > 1 THEN <<",">> ELSE <<>>)
         \o (IF IsUndef(a[i]) THEN <<"null">> ELSE JSONStringify(a[i]))
         \o JSONArrayItems(a, i + 1)

\* first: no entry has been written yet
JSONObjectEntries(e, first) ==
    IF e = <<>> THEN <<>>
    ELSE IF IsUndef(Head(e).v) THEN JSONObjectEntries(Tail(e), first)
    ELSE (IF first THEN <<>> ELSE <<",">>)
         \o <<Quote(Head(e).k), ":">> \o JSONStringify(Head(e).v)
         \o JSONObjectEntries(Tail(e), FALSE)

JSONStringify(x) ==
    IF IsNull(x) THEN <<"null">>
    ELSE IF IsBool(x) THEN <<IF x.bool THEN "true" ELSE "false">>
    ELSE IF IsNum(x) THEN <<ToString(x.num)>>
    ELSE IF IsStr(x) THEN <<Quote(x.str)>>
    ELSE IF IsArr(x) THEN <<"[">> \o JSONArrayItems(x.arr, 1) \o <<"]">>
    ELSE IF IsObj(x) THEN <<"{">> \o JSONObjectEntries(x.obj, TRUE) \o <<"}">>
    ELSE <<>>

(***************************************************************************)
(* QueryBuilder (src/unnamed/part_001).  Each method is an operator from   *)
(* the builder (this) and the arguments to the builder after the call.     *)
(***************************************************************************)
NoBuilder == [none |-> TRUE]

QueryBuilder(collectionName) ==
    [ collectionName |-> collectionName,
      filters        |-> Obj(<<>>),
      sortOptions    |-> Obj(<<>>),
      limitValue     |-> Null,
      skipValue      |-> Num(0),
      selectFields   |-> Null,
      populateFields |-> Arr(<<>>) ]

\* arguments[i], undefined past the end of the argument list
Arg(arguments, i) == IF i <= Len(arguments) THEN arguments[i] ELSE Undef

SetFilter(this, field, predicate) ==
    [this EXCEPT !.filters = Put(@, PropertyKey(field), predicate)]

\* where as it would be if it told the two forms apart by the look of the
\* second argument instead of by the number of arguments
where_bylook(this, arguments) ==
    LET field    == Arg(arguments, 1)
        operator == Arg(arguments, 2)
        value    == Arg(arguments, 3)
        tagged   == operator \in {Str("$eq"), Str("$gt"), Str("$gte"), Str("$lt"),
                                  Str("$lte"), Str("$in"), Str("$nin"), Str("$ne"),
                                  Str("$between"), Str("$like")}
    IN  IF ~tagged
        THEN SetFilter(this, field, Obj(<<Entry("$eq", operator)>>))
        ELSE SetFilter(this, field, Obj(<<Entry(PropertyKey(operator), value)>>))
where(this, arguments) ==
    LET field    == Arg(arguments, 1)
        operator == Arg(arguments, 2)
        value    == Arg(arguments, 3)
    IN  IF Len(arguments) = 2
        THEN SetFilter(this, field, Obj(<<Entry("$eq", operator)>>))
        ELSE SetFilter(this, field, Obj(<<Entry(PropertyKey(operator), value)>>))

eq(this, field, value) == SetFilter(this, field, Obj(<<Entry("$eq", value)>>))
gt(this, field, value) == SetFilter(this, field, Obj(<<Entry("$gt", value)>>))
\* gte as it would be if it merged into the predicate the field already has
gte_merge(this, field, value) ==
    IF HasKey(this.filters, PropertyKey(field))
    THEN SetFilter(this, field, Put(Get(this.filters, PropertyKey(field)), "$gte", value))
    ELSE SetFilter(this, field, Obj(<<Entry("$gte", value)>>))
gte(this, field, value) == SetFilter(this, field, Obj(<<Entry("$gte", value)>>))
lt(this, field, value) == SetFilter(this, field, Obj(<<Entry("$lt", value)>>))
lte(this, field, value) == SetFilter(this, field, Obj(<<Entry("$lte", value)>>))
in(this, field, values) == SetFilter(this, field, Obj(<<Entry("$in", values)>>))
nin(this, field, values) == SetFilter(this, field, Obj(<<Entry("$nin", values)>>))
ne(this, field, value) == SetFilter(this, field, Obj(<<Entry("$ne", value)>>))
\* between as it would be if it stored the pair high, low
between_swapped(this, field, value1, value2) ==
    SetFilter(this, field, Obj(<<Entry("$between", Arr(<<value2, value1>>))>>))
between(this, field, value1, value2) ==
    SetFilter(this, field, Obj(<<Entry("$between", Arr(<<value1, value2>>))>>))
like(this, field, pattern) == SetFilter(this, field, Obj(<<Entry("$like", pattern)>>))

\* sort as it would be if it stored the keys last to first
sort_reversed(this, sortObj) ==
    [this EXCEPT !.sortOptions =
        Obj([i \in 1..Len(sortObj.obj) |-> sortObj.obj[Len(sortObj.obj) + 1 - i]])]
\* sort as it would be if it merged the new keys into the sort it already has
sort_merged(this, sortObj) ==
    [this EXCEPT !.sortOptions =
        Obj(SelectSeq(@.obj, LAMBDA e : ~HasKey(sortObj, e.k)) \o sortObj.obj)]
sort(this, sortObj) == [this EXCEPT !.sortOptions = sortObj]
\* limit as it would be if it went back to the first page
limit_rewinding(this, n) == [this EXCEPT !.limitValue = n, !.skipValue = Num(0)]
limit(this, n) == [this EXCEPT !.limitValue = n]
skip(this, n) == [this EXCEPT !.skipValue = n]
select(this, fields) == [this EXCEPT !.selectFields = fields]

\* A destructured parameter takes its default when the property is undefined.
Default(config, key, dflt) ==
    IF IsUndef(Get(config, key)) THEN dflt ELSE Get(config, key)

\* The object literal populate() appends.
Directive(config) ==
    Obj(<< Entry("field", Get(config, "field")),
           Entry("table", Get(config, "table")),
           Entry("referenceField", Get(config, "referenceField")),
           Entry("select", Default(config, "select", Str(""))),
           Entry("where", Default(config, "where", Str(""))),
           Entry("sort", Default(config, "sort", Str(""))),
           Entry("limit", Default(config, "limit", Null)),
           Entry("skip", Default(config, "skip", Num(0))),
           Entry("justOne", Default(config, "justOne", Bool(FALSE))) >>)

\* populate as it would be if it replaced the list, like the other operations
populate_replace(this, config) ==
    [this EXCEPT !.populateFields = Arr(<<Directive(config)>>)]
\* populate as it would be if it dropped a directive lacking a required sub-field
populate_validated(this, config) ==
    IF \E key \in {"field", "table", "referenceField"} : IsUndef(Get(config, key))
    THEN this
    ELSE [this EXCEPT !.populateFields = Arr(@.arr \o <<Directive(config)>>)]
populate(this, config) ==
    [this EXCEPT !.populateFields = Arr(@.arr \o <<Directive(config)>>)]

\* The queryParams object exec() hands to apiClient.query.
exec(this) ==
    [ filters  |-> this.filters,
      sort     |-> this.sortOptions,
      limit    |-> this.limitValue,
      skip     |-> this.skipValue,
      select   |-> this.selectFields,
      populate |-> this.populateFields ]

\* then as it would be if it queried without the builder's limit
then_unlimited(this) == exec([this EXCEPT !.limitValue = Null])
\* then(resolve, reject) calls this.exec(): the queryParams object of that call.
then(this) == exec(this)

(***************************************************************************)
(* DBConnection (src/src/DBConnection.js).                                 *)
(***************************************************************************)
\* params[key] = val when cond holds (the `if (...) params.x = ...` lines)
PutIf(params, cond, key, val) == IF cond THEN Put(params, key, val) ELSE params

\* _buildQueryParams as it would be without the test for an empty filters object
_buildQueryParams_noempty(queryParams) ==
    LET p0 == Obj(<<>>)
        p1 == PutIf(p0, Truthy(queryParams.filters),
                    "filters", Text(JSONStringify(queryParams.filters)))
        p2 == PutIf(p1, Truthy(queryParams.sort) /\ KeyCount(queryParams.sort) > 0,
                    "sort", Text(JSONStringify(queryParams.sort)))
        p3 == PutIf(p2, Truthy(queryParams.limit), "limit", queryParams.limit)
        p4 == PutIf(p3, Truthy(queryParams.skip), "skip", queryParams.skip)
        p5 == PutIf(p4, Truthy(queryParams.select),
                    "select", Text(JSONStringify(queryParams.select)))
        p6 == PutIf(p5, Truthy(queryParams.populate) /\ KeyCount(queryParams.populate) > 0,
                    "populate", Text(JSONStringify(queryParams.populate)))
    IN  p6
_buildQueryParams(queryParams) ==
    LET p0 == Obj(<<>>)
        p1 == PutIf(p0, Truthy(queryParams.filters) /\ KeyCount(queryParams.filters) > 0,
                    "filters", Text(JSONStringify(queryParams.filters)))
        p2 == PutIf(p1, Truthy(queryParams.sort) /\ KeyCount(queryParams.sort) > 0,
                    "sort", Text(JSONStringify(queryParams.sort)))
        p3 == PutIf(p2, Truthy(queryParams.limit), "limit", queryParams.limit)
        p4 == PutIf(p3, Truthy(queryParams.skip), "skip", queryParams.skip)
        p5 == PutIf(p4, Truthy(queryParams.select),
                    "select", Text(JSONStringify(queryParams.select)))
        p6 == PutIf(p5, Truthy(queryParams.populate) /\ KeyCount(queryParams.populate) > 0,
                    "populate", Text(JSONStringify(queryParams.populate)))
    IN  p6

\* new URLSearchParams(params): every value becomes its string.
URLSearchParams(params) ==
    Obj([i \in 1..Len(params.obj) |->
            Entry(params.obj[i].k,
                  IF IsText(params.obj[i].v) THEN params.obj[i].v
                  ELSE Text(JSONStringify(params.obj[i].v)))])

\* A request as fetch() receives it: method, collection, path below the
\* collection, search parameters, JSON body.
Request(method, tableName, path, search, body) ==
    [method |-> method, table |-> tableName, path |-> path,
     search |-> search, body |-> body]

\* The fetch() call of DBConnection.query.
query(tableName, queryParams) ==
    Request("GET", tableName, "records",
            URLSearchParams(_buildQueryParams(queryParams)), Undef)


\* The fetch() calls of DBConnection.insertOne / insertMany.
DBConnection_insertOne(tableName, fields) ==
    Request("POST", tableName, "records", Undef,
            Text(JSONStringify(Obj(<<Entry("fields", fields)>>))))
DBConnection_insertMany(tableName, records) ==
    Request("POST", tableName, "records/bulk", Undef,
            Text(JSONStringify(Obj(<<Entry("records", records)>>))))

\* The fetch() calls of DBConnection.updateById / deleteById: the id is
\* written into the path by the template literal.
DBConnection_updateById(tableName, id, fields) ==
    Request("PATCH", tableName, "records/" \o PropertyKey(id), Undef,
            Text(JSONStringify(Obj(<<Entry("fields", fields)>>))))
DBConnection_deleteById(tableName, id) ==
    Request("DELETE", tableName, "records/" \o PropertyKey(id), Undef, Undef)

\* The fetch() calls of DBConnection.count / exists.
DBConnection_count(tableName, filters) ==
    Request("GET", tableName, "records/count",
            URLSearchParams(Obj(<<Entry("filters", Text(JSONStringify(filters)))>>)),
            Undef)
DBConnection_exists(tableName, filters) ==
    Request("GET", tableName, "records/exists",
            URLSearchParams(Obj(<<Entry("filters", Text(JSONStringify(filters)))>>)),
            Undef)

\* The fetch() calls of DBConnection.updateOne / updateMany / deleteOne /
\* deleteMany: the body is JSON.stringify of the object literal.
DBConnection_updateOne(tableName, filters, fields) ==
    Request("PATCH", tableName, "records/update", Undef,
            Text(JSONStringify(Obj(<<Entry("filters", filters), Entry("fields", fields),
                                     Entry("limit", Num(1))>>))))
DBConnection_updateMany(tableName, filters, fields) ==
    Request("PATCH", tableName, "records/update", Undef,
            Text(JSONStringify(Obj(<<Entry("filters", filters), Entry("fields", fields)>>))))
\* deleteOne as it would be if it sent the filters alone
DBConnection_deleteOne_unlimited(tableName, filters) ==
    Request("DELETE", tableName, "records/delete", Undef,
            Text(JSONStringify(Obj(<<Entry("filters", filters)>>))))
DBConnection_deleteOne(tableName, filters) ==
    Request("DELETE", tableName, "records/delete", Undef,
            Text(JSONStringify(Obj(<<Entry("filters", filters), Entry("limit", Num(1))>>))))
DBConnection_deleteMany(tableName, filters) ==
    Request("DELETE", tableName, "records/delete", Undef,
            Text(JSONStringify(Obj(<<Entry("filters", filters)>>))))

\* What an awaited call settles with: a value, or the Error thrown.
Resolved(v) == [value |-> v]
Rejected(message) == [error |-> message]
IsResolved(r) == DOMAIN r = {"value"}
IsRejected(r) == DOMAIN r = {"error"}

\* The answer of fetch(): response.ok, response.statusText, response.json().
Response(ok, statusText, json) == [ok |-> ok, statusText |-> statusText, json |-> json]

\* The text of the Error each method throws on a response that is not ok.
FailureText(method) ==
    CASE method = "query"      -> "Failed to query records: "
      [] method = "updateOne"  -> "Failed to update record: "
      [] method = "updateMany" -> "Failed to update records: "
      [] method = "deleteOne"  -> "Failed to delete record: "
      [] method = "deleteMany" -> "Failed to delete records: "
      [] method = "insertOne"  -> "Failed to insert record: "
      [] method = "insertMany" -> "Failed to insert records: "
      [] method = "updateById" -> "Failed to update record: "
      [] method = "deleteById" -> "Failed to delete record: "
      [] method = "count"      -> "Failed to count records: "
      [] method = "exists"     -> "Failed to check if record exists: "

\* fetchFn of each method, from the answer of fetch() on.
fetchFn(method, response) ==
    IF ~response.ok
    THEN Rejected(FailureText(method) \o response.statusText)
    ELSE Resolved(response.json)

\* The message of new Error(x).
ErrorMessage(x) == IF IsUndef(x) THEN "" ELSE PropertyKey(x)

\* cleanFetch as it would be if it handed back response.data whatever
\* response.success says
cleanFetch_unchecked(fetched) ==
    IF IsRejected(fetched) THEN fetched
    ELSE Resolved(Get(fetched.value, "data"))
cleanFetch(fetched) ==
    IF IsRejected(fetched) THEN fetched
    ELSE IF ~Truthy(Get(fetched.value, "success"))
    THEN Rejected(ErrorMessage(Get(fetched.value, "message")))
    ELSE Resolved(Get(fetched.value, "data"))

(***************************************************************************)
(* DBModel (src/unnamed/part_000).                                         *)
(***************************************************************************)
RECURSIVE ApplyFilters(_, _)
\* Object.keys(filters).forEach(key => query.where(key, filters[key]))
ApplyFilters(builder, entries) ==
    IF entries = <<>> THEN builder
    ELSE ApplyFilters(where(builder, <<Str(Head(entries).k), Head(entries).v>>),
                      Tail(entries))

\* find as it would be if it applied only the first key of the filters
find_firstkey(collectionName, filters) ==
    ApplyFilters(QueryBuilder(collectionName),
                 SubSeq(filters.obj, 1, IF Len(filters.obj) > 1 THEN 1 ELSE Len(filters.obj)))
find(collectionName, filters) ==
    ApplyFilters(QueryBuilder(collectionName), filters.obj)

\* _prepareFields as it would be if it listed the last key first
_prepareFields_backwards(data) ==
    Arr([i \in 1..Len(data.obj) |->
            Obj(<<Entry("field_name", Str(data.obj[Len(data.obj) + 1 - i].k)),
                  Entry("field_value", data.obj[Len(data.obj) + 1 - i].v)>>)])
_prepareFields(data) ==
    Arr([i \in 1..Len(data.obj) |->
            Obj(<<Entry("field_name", Str(data.obj[i].k)),
                  Entry("field_value", data.obj[i].v)>>)])

\* Reading a property of undefined or null throws a TypeError.
NoProperties(x) == IsUndef(x) \/ IsNull(x)

\* The part of each verb after its await: res is what the await settled with.
\* findOne as it would be if no match were a failure
DBModel_findOne_strict(res) ==
    IF IsRejected(res) THEN res
    ELSE IF NoProperties(res.value) THEN Rejected("TypeError")
    ELSE IF IsArr(res.value) /\ Len(res.value.arr) = 0 THEN Rejected("Not found")
    ELSE Resolved(res.value.arr[1])
DBModel_findOne(res) ==
    IF IsRejected(res) THEN res
    ELSE IF NoProperties(res.value) THEN Rejected("TypeError")
    ELSE LET first == IF IsArr(res.value) /\ Len(res.value.arr) >= 1
                      THEN res.value.arr[1] ELSE Undef
         IN  Resolved(IF Truthy(first) THEN first ELSE Null)

DBModel_updateOne(res) ==
    IF IsRejected(res) THEN res
    ELSE IF NoProperties(res.value) THEN Rejected("TypeError")
    ELSE Resolved(Obj(<<Entry("acknowledged", Bool(TRUE)),
                        Entry("matchedCount", Length(res.value)),
                        Entry("modifiedCount", Length(res.value))>>))

\* updateMany as it would be if it counted only the records that carry a change
DBModel_updateMany_inspect(res) ==
    IF IsRejected(res) THEN res
    ELSE IF NoProperties(res.value) THEN Rejected("TypeError")
    ELSE Resolved(Obj(<<Entry("acknowledged", Bool(TRUE)),
                        Entry("matchedCount", Length(res.value)),
                        Entry("modifiedCount",
                              Num(Cardinality({i \in 1..Len(res.value.arr) :
                                      Get(res.value.arr[i], "age") = Num(40)})))>>))
DBModel_updateMany(res) ==
    IF IsRejected(res) THEN res
    ELSE IF NoProperties(res.value) THEN Rejected("TypeError")
    ELSE Resolved(Obj(<<Entry("acknowledged", Bool(TRUE)),
                        Entry("matchedCount", Length(res.value)),
                        Entry("modifiedCount", Length(res.value))>>))

DBModel_deleteOne(res) ==
    IF IsRejected(res) THEN res
    ELSE IF NoProperties(res.value) THEN Rejected("TypeError")
    ELSE Resolved(Obj(<<Entry("acknowledged", Bool(TRUE)),
                        Entry("deletedCount", Length(res.value))>>))

\* deleteMany as it would be if it caught the error and reported it in its summary
DBModel_deleteMany_caught(res) ==
    IF IsRejected(res)
    THEN Resolved(Obj(<<Entry("acknowledged", Bool(FALSE)),
                        Entry("deletedCount", Num(0))>>))
    ELSE IF NoProperties(res.value) THEN Rejected("TypeError")
    ELSE Resolved(Obj(<<Entry("acknowledged", Bool(TRUE)),
                        Entry("deletedCount", Length(res.value))>>))
DBModel_deleteMany(res) ==
    IF IsRejected(res) THEN res
    ELSE IF NoProperties(res.value) THEN Rejected("TypeError")
    ELSE Resolved(Obj(<<Entry("acknowledged", Bool(TRUE)),
                        Entry("deletedCount", Length(res.value))>>))

\* res.count and res.exists: a property of whatever the await settled with.
DBModel_countDocuments(res) ==
    IF IsRejected(res) THEN res
    ELSE IF NoProperties(res.value) THEN Rejected("TypeError")
    ELSE Resolved(IF IsObj(res.value) THEN Get(res.value, "count") ELSE Undef)

DBModel_exists(res) ==
    IF IsRejected(res) THEN res
    ELSE IF NoProperties(res.value) THEN Rejected("TypeError")
    ELSE Resolved(IF IsObj(res.value) THEN Get(res.value, "exists") ELSE Undef)

\* insertMany as it would be if it put the last document first
DBModel_insertMany_backwards(dataArray) ==
    Arr([i \in 1..Len(dataArray.arr) |->
            _prepareFields(dataArray.arr[Len(dataArray.arr) + 1 - i])])
\* dataArray.map(data => this._prepareFields(data))
DBModel_insertMany(dataArray) ==
    Arr([i \in 1..Len(dataArray.arr) |-> _prepareFields(dataArray.arr[i])])

\* findOne up to its await, as it would be if it did not limit the query
DBModel_findOne_query_unlimited(collectionName, filters) ==
    query(collectionName, exec(find(collectionName, filters)))
\* findOne up to its await: the request of find(filters).limit(1).exec().
DBModel_findOne_query(collectionName, filters) ==
    query(collectionName, exec(limit(find(collectionName, filters), Num(1))))

\* findById(id) is findOne({id}).
DBModel_findById(collectionName, id) ==
    DBModel_findOne_query(collectionName, Obj(<<Entry("id", id)>>))

\* findByIdAndUpdate after its first await, as it would be if it went on to
\* findById whatever became of the update
Refetches_regardless(p, res) ==
    /\ p.verb = "findByIdAndUpdate"
    /\ p.method = "updateById"
    /\ Truthy(Get(p.options, "new"))
\* findByIdAndUpdate after its first await: the update did not throw and
\* options.new is truthy, so findById(id) is called.
Refetches(p, res) ==
    /\ p.verb = "findByIdAndUpdate"
    /\ p.method = "updateById"
    /\ IsResolved(res)
    /\ Truthy(Get(p.options, "new"))

(***************************************************************************)
(* Calls and their outcomes.                                               *)
(***************************************************************************)
NoError == [none |-> TRUE]
NoOutcome == [none |-> TRUE]
Call(op, args) == [op |-> op, args |-> args]
\* An asynchronous call in flight: the verb awaiting, the DBConnection
\* method it called and the request that method handed to fetch().
Pending(verb, method, request) == [verb |-> verb, method |-> method, request |-> request]
\* findByIdAndUpdate in flight, with the id and options it holds on to and
\* its local `result` (undefined until the first await is over).
PendingUpdate(method, request, id, options, result) ==
    [verb |-> "findByIdAndUpdate", method |-> method, request |-> request,
     id |-> id, options |-> options, result |-> result]

\* The second builder slot: the instance, its state and the filters of its find().
Held(instance, builder, filters) == [self |-> instance, qb |-> builder, findArgs |-> filters]
NoOther == Held(0, NoBuilder, Undef)

Collection == "users"

Init ==
    /\ qb = NoBuilder
    /\ wire = <<>>
    /\ pending = <<>>
    /\ outcome = NoOutcome
    /\ thrown = NoError
    /\ calls = <<>>
    /\ findArgs = Undef
    /\ self = 0
    /\ made = 0
    /\ other = NoOther

\* A fluent call as it would be if the method built a new instance holding
\* the result and returned that
Fluent_copying(after, returned, call) ==
    /\ qb # NoBuilder
    /\ qb' = after
    /\ made' = made + 1
    /\ self' = made + 1
    /\ calls' = Append(calls, call)
    /\ thrown' = NoError
    /\ UNCHANGED <<wire, pending, outcome, findArgs, other>>
\* A fluent call as it would be if all builders kept their state in one
\* object they share
Fluent_shared(after, returned, call) ==
    /\ qb # NoBuilder
    /\ qb' = after
    /\ other' = IF other.qb = NoBuilder THEN other
                ELSE [other EXCEPT !.qb = [after EXCEPT !.collectionName =
                                                           other.qb.collectionName]]
    /\ self' = returned
    /\ calls' = Append(calls, call)
    /\ thrown' = NoError
    /\ UNCHANGED <<wire, pending, outcome, findArgs, made>>
\* A fluent call as it would be if a query in flight were read from the
\* builder when the transport takes it, not when exec() was called
Fluent_live(after, returned, call) ==
    /\ qb # NoBuilder
    /\ qb' = after
    /\ self' = returned
    /\ pending' = [i \in 1..Len(pending) |->
                      IF pending[i].verb \in {"exec", "then"}
                      THEN [pending[i] EXCEPT
                               !.request = query(after.collectionName, exec(after))]
                      ELSE pending[i]]
    /\ calls' = Append(calls, call)
    /\ thrown' = NoError
    /\ UNCHANGED <<wire, outcome, findArgs, made, other>>
\* A fluent call on the builder: the builder is updated in place, and the
\* instance the method returns is the one the caller goes on with.
Fluent(after, returned, call) ==
    /\ qb # NoBuilder
    /\ qb' = after
    /\ self' = returned
    /\ calls' = Append(calls, call)
    /\ thrown' = NoError
    /\ UNCHANGED <<wire, pending, outcome, findArgs, made, other>>

\* find() on the model of a collection: a new QueryBuilder is constructed,
\* and the builder observed is the one this call returns.
CallFindIn(collectionName, filters) ==
    /\ qb = NoBuilder
    /\ qb' = find(collectionName, filters)
    /\ findArgs' = filters
    /\ made' = made + 1
    /\ self' = made + 1
    /\ UNCHANGED <<wire, pending, outcome, thrown, calls, other>>

CallFind(filters) == CallFindIn(Collection, filters)

\* The caller turns to the other builder it holds (no code runs).
Turn ==
    /\ qb # NoBuilder \/ other.qb # NoBuilder
    /\ qb' = other.qb
    /\ self' = other.self
    /\ findArgs' = other.findArgs
    /\ other' = Held(self, qb, findArgs)
    /\ UNCHANGED <<wire, pending, outcome, thrown, calls, made>>

CallWhere(arguments) == Fluent(where(qb, arguments), self, Call("where", arguments))
CallEq(field, value) == Fluent(eq(qb, field, value), self, Call("eq", <<field, value>>))
CallGt(field, value) == Fluent(gt(qb, field, value), self, Call("gt", <<field, value>>))
CallGte(field, value) == Fluent(gte(qb, field, value), self, Call("gte", <<field, value>>))
CallLt(field, value) == Fluent(lt(qb, field, value), self, Call("lt", <<field, value>>))
CallLte(field, value) == Fluent(lte(qb, field, value), self, Call("lte", <<field, value>>))
CallIn(field, values) == Fluent(in(qb, field, values), self, Call("in", <<field, values>>))
CallNin(field, values) == Fluent(nin(qb, field, values), self, Call("nin", <<field, values>>))
CallNe(field, value) == Fluent(ne(qb, field, value), self, Call("ne", <<field, value>>))
CallBetween(field, value1, value2) ==
    Fluent(between(qb, field, value1, value2), self, Call("between", <<field, value1, value2>>))
CallLike(field, pattern) == Fluent(like(qb, field, pattern), self, Call("like", <<field, pattern>>))
CallSort(sortObj) == Fluent(sort(qb, sortObj), self, Call("sort", <<sortObj>>))
CallLimit(n) == Fluent(limit(qb, n), self, Call("limit", <<n>>))
CallSkip(n) == Fluent(skip(qb, n), self, Call("skip", <<n>>))
CallSelect(fields) == Fluent(select(qb, fields), self, Call("select", <<fields>>))

\* populate(config): destructuring undefined or null throws a TypeError
\* before the body runs.
CallPopulate(config) ==
    /\ qb # NoBuilder
    /\ calls' = Append(calls, Call("populate", <<config>>))
    /\ IF IsUndef(config) \/ IsNull(config)
       THEN qb' = qb /\ self' = self /\ thrown' = [error |-> "TypeError"]
       ELSE qb' = populate(qb, config) /\ self' = self /\ thrown' = NoError
    /\ UNCHANGED <<wire, pending, outcome, findArgs, made, other>>

\* exec() as it would be if it emptied the builder once the request is built
CallExec_consuming ==
    /\ qb # NoBuilder
    /\ LET request == query(qb.collectionName, exec(qb))
       IN  /\ wire' = Append(wire, request)
           /\ pending' = Append(pending, Pending("exec", "query", request))
    /\ qb' = QueryBuilder(qb.collectionName)
    /\ calls' = Append(calls, Call("exec", <<>>))
    /\ thrown' = NoError
    /\ UNCHANGED <<outcome, findArgs, self, made, other>>
\* exec(): the request is built and handed to fetch() before the first await.
CallExec ==
    /\ qb # NoBuilder
    /\ LET request == query(qb.collectionName, exec(qb))
       IN  /\ wire' = Append(wire, request)
           /\ pending' = Append(pending, Pending("exec", "query", request))
    /\ calls' = Append(calls, Call("exec", <<>>))
    /\ thrown' = NoError
    /\ UNCHANGED <<qb, outcome, findArgs, self, made, other>>

\* A DBModel verb as it would be if it sent its request a second time
Verb_resending(verb, method, request, arguments) ==
    /\ wire' = Append(Append(wire, request), request)
    /\ pending' = Append(pending, Pending(verb, method, request))
    /\ calls' = Append(calls, Call(verb, arguments))
    /\ thrown' = NoError
    /\ UNCHANGED <<qb, outcome, findArgs, self, made, other>>
\* A DBModel verb: the request is handed to fetch() before the first await.
Verb(verb, method, request, arguments) ==
    /\ wire' = Append(wire, request)
    /\ pending' = Append(pending, Pending(verb, method, request))
    /\ calls' = Append(calls, Call(verb, arguments))
    /\ thrown' = NoError
    /\ UNCHANGED <<qb, outcome, findArgs, self, made, other>>

CallFindOne(filters) ==
    Verb("findOne", "query", DBModel_findOne_query(Collection, filters), <<filters>>)

CallFindById(id) ==
    Verb("findById", "query", DBModel_findById(Collection, id), <<id>>)

CallUpdateOne(filters, updateData) ==
    Verb("updateOne", "updateOne",
         DBConnection_updateOne(Collection, filters, _prepareFields(updateData)),
         <<filters, updateData>>)

CallUpdateMany(filters, updateData) ==
    Verb("updateMany", "updateMany",
         DBConnection_updateMany(Collection, filters, _prepareFields(updateData)),
         <<filters, updateData>>)

CallDeleteOne(filters) ==
    Verb("deleteOne", "deleteOne",
         DBConnection_deleteOne(Collection, filters), <<filters>>)

CallDeleteMany(filters) ==
    Verb("deleteMany", "deleteMany",
         DBConnection_deleteMany(Collection, filters), <<filters>>)

\* then(resolve, reject) and `await builder`: exec() is called at once.
CallThen ==
    /\ qb # NoBuilder
    /\ LET request == query(qb.collectionName, then(qb))
       IN  /\ wire' = Append(wire, request)
           /\ pending' = Append(pending, Pending("then", "query", request))
    /\ calls' = Append(calls, Call("then", <<>>))
    /\ thrown' = NoError
    /\ UNCHANGED <<qb, outcome, findArgs, self, made, other>>

CallCreate(data) ==
    Verb("create", "insertOne",
         DBConnection_insertOne(Collection, _prepareFields(data)), <<data>>)

CallInsertMany(dataArray) ==
    Verb("insertMany", "insertMany",
         DBConnection_insertMany(Collection, DBModel_insertMany(dataArray)),
         <<dataArray>>)

\* findByIdAndUpdate: the update request is handed to fetch() first.
CallFindByIdAndUpdate(id, updateData, options) ==
    /\ LET request == DBConnection_updateById(Collection, id, _prepareFields(updateData))
       IN  /\ wire' = Append(wire, request)
           /\ pending' = Append(pending, PendingUpdate("updateById", request, id, options, Undef))
    /\ calls' = Append(calls, Call("findByIdAndUpdate", <<id, updateData, options>>))
    /\ thrown' = NoError
    /\ UNCHANGED <<qb, outcome, findArgs, self, made, other>>

CallFindOneAndUpdate(filters, updateData) ==
    Verb("findOneAndUpdate", "updateOne",
         DBConnection_updateOne(Collection, filters, _prepareFields(updateData)),
         <<filters, updateData>>)

CallFindByIdAndDelete(id) ==
    Verb("findByIdAndDelete", "deleteById",
         DBConnection_deleteById(Collection, id), <<id>>)

CallFindOneAndDelete(filters) ==
    Verb("findOneAndDelete", "deleteOne",
         DBConnection_deleteOne(Collection, filters), <<filters>>)

CallCountDocuments(filters) ==
    Verb("countDocuments", "count",
         DBConnection_count(Collection, filters), <<filters>>)

CallExists(filters) ==
    Verb("exists", "exists",
         DBConnection_exists(Collection, filters), <<filters>>)

\* What the call in flight p settles with when fetch() answers response.
Settle(p, response) ==
    LET res == cleanFetch(fetchFn(p.method, response))
    IN  CASE p.verb = "exec"       -> res
          [] p.verb = "then"       -> res
          [] p.verb = "findOne"    -> DBModel_findOne(res)
          [] p.verb = "findById"   -> DBModel_findOne(res)
          [] p.verb = "updateOne"  -> DBModel_updateOne(res)
          [] p.verb = "updateMany" -> DBModel_updateMany(res)
          [] p.verb = "deleteOne"  -> DBModel_deleteOne(res)
          [] p.verb = "deleteMany" -> DBModel_deleteMany(res)
          [] p.verb = "create"     -> res
          [] p.verb = "insertMany" -> res
          [] p.verb = "findByIdAndUpdate" ->
                 IF p.method = "query" THEN DBModel_findOne(res) ELSE res
          [] p.verb = "findOneAndUpdate"  -> res
          [] p.verb = "findByIdAndDelete" -> res
          [] p.verb = "findOneAndDelete"  -> res
          [] p.verb = "countDocuments"    -> DBModel_countDocuments(res)
          [] p.verb = "exists"            -> DBModel_exists(res)

Remove(seq, i) == SubSeq(seq, 1, i - 1) \o SubSeq(seq, i + 1, Len(seq))

\* The transport answers the i-th call in flight: the call settles, or, in
\* findByIdAndUpdate with options.new, goes on to its findById(id).  returned
\* is what the DBConnection method settled with, result what the call did.
Respond(i, response) ==
    /\ i \in 1..Len(pending)
    /\ LET p == pending[i]
           res == cleanFetch(fetchFn(p.method, response))
       IN  IF Refetches(p, res)
           THEN LET request == DBModel_findById(Collection, p.id)
                IN  /\ wire' = Append(wire, request)
                    /\ pending' = [pending EXCEPT
                                      ![i] = PendingUpdate("query", request, p.id,
                                                           p.options, res)]
                    /\ outcome' = outcome
           ELSE /\ outcome' = [call |-> p, response |-> response,
                               returned |-> res, result |-> Settle(p, response)]
                /\ pending' = Remove(pending, i)
                /\ wire' = wire
    /\ UNCHANGED <<qb, thrown, calls, findArgs, self, made, other>>

(***************************************************************************)
(* The inputs of the free specification.                                   *)
(***************************************************************************)
Fields == {Str("age"), Str("name")}
Values == {Num(25), Str("$gte")}
Lists == {Arr(<<Num(25), Num(40)>>)}
OperatorTags == {"$eq", "$gt", "$gte", "$lt", "$lte", "$in", "$nin", "$ne",
                 "$between", "$like"}
\* the second argument of the three-argument where: a tag, or a bare name
Operators == OperatorTags \cup {"eq"}
FindFilters == {Obj(<<>>), Obj(<<Entry("age", Num(25))>>)}
SortSpecs == { Obj(<<Entry("age", Num(-1)), Entry("name", Num(1))>>),
               Obj(<<Entry("name", Num(1)), Entry("age", Num(-1))>>),
               Obj(<<>>) }
Limits == {Num(1), Num(5)}
Skips == {Num(0), Num(10)}
Selects == {Str("name email"), Str(""), Arr(<<Str("name")>>), Arr(<<>>)}
PopulateConfigs ==
    { Obj(<<Entry("field", Str("posts")), Entry("table", Str("posts")),
            Entry("referenceField", Str("user_id"))>>),
      Obj(<<Entry("field", Str("comments")), Entry("table", Str("comments")),
            Entry("referenceField", Str("user_id")), Entry("limit", Num(10))>>),
      Obj(<<Entry("table", Str("posts")), Entry("referenceField", Str("user_id"))>>),
      Undef }

Next ==
    \/ \E m \in FindFilters : CallFind(m)
    \/ \E f \in Fields, v \in Values :
          Len(calls) < MaxCalls /\ CallWhere(<<f, v>>)
    \/ \E f \in Fields, op \in Operators :
          Len(calls) < MaxCalls /\ CallWhere(<<f, Str(op), Num(25)>>)
    \/ \E f \in Fields, v \in Values : Len(calls) < MaxCalls /\ CallEq(f, v)
    \/ \E f \in Fields, v \in Values : Len(calls) < MaxCalls /\ CallGt(f, v)
    \/ \E f \in Fields, v \in Values : Len(calls) < MaxCalls /\ CallGte(f, v)
    \/ \E f \in Fields, v \in Values : Len(calls) < MaxCalls /\ CallLt(f, v)
    \/ \E f \in Fields, v \in Values : Len(calls) < MaxCalls /\ CallLte(f, v)
    \/ \E f \in Fields, v \in Lists : Len(calls) < MaxCalls /\ CallIn(f, v)
    \/ \E f \in Fields, v \in Lists : Len(calls) < MaxCalls /\ CallNin(f, v)
    \/ \E f \in Fields, v \in Values : Len(calls) < MaxCalls /\ CallNe(f, v)
    \/ \E f \in Fields : Len(calls) < MaxCalls /\ CallBetween(f, Num(25), Num(40))
    \/ \E f \in Fields, v \in Values : Len(calls) < MaxCalls /\ CallLike(f, v)
    \/ \E s \in SortSpecs : Len(calls) < MaxCalls /\ CallSort(s)
    \/ \E n \in Limits : Len(calls) < MaxCalls /\ CallLimit(n)
    \/ \E n \in Skips : Len(calls) < MaxCalls /\ CallSkip(n)
    \/ \E s \in Selects : Len(calls) < MaxCalls /\ CallSelect(s)
    \/ \E c \in PopulateConfigs : Len(calls) < MaxCalls /\ CallPopulate(c)
    \/ Len(calls) < MaxCalls /\ CallExec

Spec == Init /\ [][Next]_vars

(***************************************************************************)
(* The verbs of DBModel against a transport that answers.                  *)
(***************************************************************************)
Documents == << Obj(<<Entry("id", Num(1)), Entry("age", Num(25))>>),
                Obj(<<Entry("id", Num(2)), Entry("age", Num(40))>>) >>
\* the lists of 0..MaxRecords records that alternate the two documents
RecordLists ==
    { [i \in 1..n |-> Documents[1 + ((first + i) % 2)]] :
          n \in 0..MaxRecords, first \in 0..1 }
Responses ==
    { Response(FALSE, "Internal Server Error", Undef),
      Response(TRUE, "OK", Obj(<<Entry("success", Bool(FALSE)),
                                 Entry("message", Str("Record not found"))>>)) }
    \cup { Response(TRUE, "OK", Obj(<<Entry("success", Bool(TRUE)),
                                      Entry("data", Arr(list))>>)) :
           list \in RecordLists }
VerbFilters == {Obj(<<>>), Obj(<<Entry("email", Str("missing@x.com"))>>)}
Updates == {Obj(<<Entry("age", Num(31)), Entry("active", Bool(FALSE))>>)}
Ids == {Str("user-id")}

NextModel ==
    \/ \E m \in VerbFilters : Len(calls) < MaxCalls /\ CallFindOne(m)
    \/ \E id \in Ids : Len(calls) < MaxCalls /\ CallFindById(id)
    \/ \E m \in VerbFilters, d \in Updates :
          Len(calls) < MaxCalls /\ CallUpdateOne(m, d)
    \/ \E m \in VerbFilters, d \in Updates :
          Len(calls) < MaxCalls /\ CallUpdateMany(m, d)
    \/ \E m \in VerbFilters : Len(calls) < MaxCalls /\ CallDeleteOne(m)
    \/ \E m \in VerbFilters : Len(calls) < MaxCalls /\ CallDeleteMany(m)
    \/ \E i \in 1..Len(pending), r \in Responses : Respond(i, r)

SpecModel == Init /\ [][NextModel]_vars

(***************************************************************************)
(* Scenario B of the specification: the calls of                           *)
(* find().gte('age',25).lte('age',40).sort({age:-1}).limit(5).skip(10)     *)
(* and exec(), in any order and number.                                    *)
(***************************************************************************)
NextScenario ==
    \/ CallFind(Obj(<<>>))
    \/ Len(calls) < ScenarioLen /\ CallGte(Str("age"), Num(25))
    \/ Len(calls) < ScenarioLen /\ CallLte(Str("age"), Num(40))
    \/ Len(calls) < ScenarioLen /\ CallSort(Obj(<<Entry("age", Num(-1))>>))
    \/ Len(calls) < ScenarioLen /\ CallLimit(Num(5))
    \/ Len(calls) < ScenarioLen /\ CallSkip(Num(10))
    \/ Len(calls) < ScenarioLen /\ CallExec

SpecScenario == Init /\ [][NextScenario]_vars

(***************************************************************************)
(* Every verb of DBModel and exec() against a transport that answers each  *)
(* method with a failure of the protocol, a failure of the envelope or a   *)
(* success.                                                                *)
(***************************************************************************)
\* response.data of a success, by the method answered
DataFor(method) ==
    CASE method \in {"query"} -> {Arr(<<>>), Arr(<<Documents[1]>>)}
      [] method \in {"updateOne", "updateMany", "deleteOne", "deleteMany",
                     "insertMany"} -> {Arr(<<Documents[1], Documents[2]>>)}
      [] method \in {"insertOne", "updateById", "deleteById"} -> {Documents[1]}
      [] method = "count" -> {Obj(<<Entry("count", Num(2))>>)}
      [] method = "exists" -> {Obj(<<Entry("exists", Bool(TRUE))>>)}
ResponsesFor(method) ==
    { Response(TRUE, "OK", Obj(<<Entry("success", Bool(FALSE)),
                                 Entry("message", Str("Record not found"))>>)) }
    \cup { Response(FALSE, "Internal Server Error",
                    Obj(<<Entry("success", Bool(TRUE)), Entry("data", Str("unread"))>>)) }
    \cup { Response(TRUE, "OK", Obj(<<Entry("success", Bool(TRUE)),
                                      Entry("data", d)>>)) :
           d \in DataFor(method) }
NewDocuments == { Obj(<<Entry("name", Str("Jo")), Entry("age", Num(30))>>),
                  Obj(<<Entry("age", Num(30)), Entry("name", Str("Jo"))>>) }
Matching == Obj(<<Entry("email", Str("missing@x.com"))>>)
\* the third argument of findByIdAndUpdate
UpdateOptions == { Obj(<<Entry("new", Bool(TRUE))>>),
                   Obj(<<Entry("returnUpdated", Bool(TRUE))>>) }

NextVerbs ==
    \/ CallFind(Matching)
    \/ Len(calls) < MaxCalls /\ CallExec
    \/ \E d \in NewDocuments : Len(calls) < MaxCalls /\ CallCreate(d)
    \/ Len(calls) < MaxCalls /\ CallInsertMany(Arr(<<Documents[1], Documents[2]>>))
    \/ Len(calls) < MaxCalls /\ CallFindOne(Matching)
    \/ \E id \in Ids : Len(calls) < MaxCalls /\ CallFindById(id)
    \/ \E d \in Updates : Len(calls) < MaxCalls /\ CallUpdateOne(Matching, d)
    \/ \E id \in Ids, d \in Updates, o \in UpdateOptions :
          Len(calls) < MaxCalls /\ CallFindByIdAndUpdate(id, d, o)
    \/ \E d \in Updates : Len(calls) < MaxCalls /\ CallFindOneAndUpdate(Matching, d)
    \/ \E d \in Updates : Len(calls) < MaxCalls /\ CallUpdateMany(Matching, d)
    \/ Len(calls) < MaxCalls /\ CallDeleteOne(Matching)
    \/ \E id \in Ids : Len(calls) < MaxCalls /\ CallFindByIdAndDelete(id)
    \/ Len(calls) < MaxCalls /\ CallFindOneAndDelete(Matching)
    \/ Len(calls) < MaxCalls /\ CallDeleteMany(Matching)
    \/ Len(calls) < MaxCalls /\ CallCountDocuments(Matching)
    \/ Len(calls) < MaxCalls /\ CallExists(Matching)
    \/ \E i \in 1..Len(pending) :
          \E r \in ResponsesFor(pending[i].method) : Respond(i, r)

SpecVerbs == Init /\ [][NextVerbs]_vars

(***************************************************************************)
(* find(), the chained form of where the README and the examples show      *)
(* (where('age').gte(25).lte(40), where('status').ne('inactive')), exec()  *)
(* and then().                                                             *)
(***************************************************************************)
LazyFilters == { Obj(<<>>),
                 Obj(<<Entry("status", Str("active"))>>),
                 Obj(<<Entry("age", Num(25)), Entry("active", Bool(TRUE))>>) }

NextLazy ==
    \/ \E m \in LazyFilters : CallFind(m)
    \/ \E f \in {Str("age"), Str("status")} :
          Len(calls) < MaxCalls /\ CallWhere(<<f>>)
    \/ Len(calls) < MaxCalls /\ CallWhere(<<Str("age"), Num(25)>>)
    \/ Len(calls) < MaxCalls /\ CallGte(Num(25), Undef)
    \/ Len(calls) < MaxCalls /\ CallLte(Num(40), Undef)
    \/ Len(calls) < MaxCalls /\ CallNe(Str("inactive"), Undef)
    \/ Len(calls) < MaxCalls /\ CallGte(Str("age"), Num(25))
    \/ Len(calls) < MaxCalls /\ CallLimit(Num(5))
    \/ Len(calls) < MaxCalls /\ CallSelect(Str("name email"))
    \/ Len(calls) < MaxCalls /\ CallExec
    \/ Len(calls) < MaxCalls /\ CallThen
    \/ \E i \in 1..Len(pending) :
          \E r \in ResponsesFor(pending[i].method) : Respond(i, r)

SpecLazy == Init /\ [][NextLazy]_vars

(***************************************************************************)
(* Two builders, each from its own find() on the model of one of two       *)
(* collections of the same connection: the caller works on either, in any  *)
(* order, and the transport answers in any order.                          *)
(***************************************************************************)
Collections == {Collection, "posts"}

NextTwo ==
    \/ \E c \in Collections, m \in FindFilters : CallFindIn(c, m)
    \/ Turn
    \/ Len(calls) < MaxCalls /\ CallWhere(<<Str("age"), Num(25)>>)
    \/ Len(calls) < MaxCalls /\ CallLte(Str("age"), Num(40))
    \/ Len(calls) < MaxCalls /\ CallSort(Obj(<<Entry("age", Num(-1))>>))
    \/ Len(calls) < MaxCalls /\ CallLimit(Num(5))
    \/ Len(calls) < MaxCalls /\ CallSkip(Num(10))
    \/ Len(calls) < MaxCalls /\ CallSelect(Str("name email"))
    \/ Len(calls) < MaxCalls
          /\ CallPopulate(Obj(<<Entry("field", Str("posts")), Entry("table", Str("posts")),
                                Entry("referenceField", Str("user_id"))>>))
    \/ Len(calls) < MaxCalls /\ CallExec
    \/ \E i \in 1..Len(pending) :
          \E r \in ResponsesFor(pending[i].method) : Respond(i, r)

SpecTwo == Init /\ [][NextTwo]_vars

(***************************************************************************)
(* What the claims say of a call.                                          *)
(***************************************************************************)
Last(seq) == seq[Len(seq)]
Max(S) == CHOOSE x \in S : \A y \in S : y <= x

PredicateOps == {"where", "eq", "gt", "gte", "lt", "lte", "in", "nin", "ne",
                 "between", "like"}
ShorthandOps == PredicateOps \ {"where"}
IsPredicateCall(c) == c.op \in PredicateOps
\* the step just taken was a call of one of ops
Called(ops) == Len(calls') = Len(calls) + 1 /\ Last(calls').op \in ops

\* The operator tag and the value a predicate-setting call is said to set.
TagOf(c) ==
    IF c.op = "where"
    THEN (IF Len(c.args) = 2 THEN "$eq" ELSE c.args[2].str)
    ELSE "$" \o c.op
ValueOf(c) ==
    IF c.op = "where"
    THEN (IF Len(c.args) = 2 THEN c.args[2] ELSE c.args[3])
    ELSE IF c.op = "between" THEN Arr(<<c.args[2], c.args[3]>>)
    ELSE c.args[2]
PredicateOf(c) == Obj(<<Entry(TagOf(c), ValueOf(c))>>)
PredicateCallsOn(f) ==
    {i \in 1..Len(calls) : IsPredicateCall(calls[i]) /\ calls[i].args[1] = f}

ScenarioB ==
    << Call("gte", <<Str("age"), Num(25)>>),
       Call("lte", <<Str("age"), Num(40)>>),
       Call("sort", <<Obj(<<Entry("age", Num(-1))>>)>>),
       Call("limit", <<Num(5)>>),
       Call("skip", <<Num(10)>>),
       Call("exec", <<>>) >>

\* the JSON text t holds the member "key": number somewhere
HasMember(t, key, number) ==
    /\ IsText(t)
    /\ \E i \in 1..Len(t.text) :
          /\ i + 2 <= Len(t.text)
          /\ t.text[i] = Quote(key)
          /\ t.text[i + 1] = ":"
          /\ t.text[i + 2] = ToString(number)

C2_ScenarioB ==
    calls = ScenarioB =>
        LET search == Last(wire).search
        IN  /\ HasMember(Get(search, "filters"), "$gte", 25)
            /\ HasMember(Get(search, "filters"), "$lte", 40)
            /\ Get(search, "sort") = Text(<<"{", Quote("age"), ":", "-1", "}">>)
            /\ Get(search, "limit") = Text(<<"5">>)
            /\ Get(search, "skip") = Text(<<"10">>)

(***************************************************************************)
(* C3  Populate accumulation: when every populate call made so far had a   *)
(* valid config, the populate list has one directive per populate call,    *)
(* in call order, the i-th being the directive of the i-th call (its       *)
(* sub-fields as given, the optional ones defaulted).                      *)
(***************************************************************************)
RequiredKeys == {"field", "table", "referenceField"}
ValidConfig(c) == IsObj(c) /\ \A key \in RequiredKeys : ~IsUndef(Get(c, key))
IsPopulateCall(c) == c.op = "populate"
PopulateCalls == SelectSeq(calls, IsPopulateCall)

DefaultOf(key) ==
    CASE key \in {"select", "where", "sort"} -> Str("")
      [] key = "limit"   -> Null
      [] key = "skip"    -> Num(0)
      [] key = "justOne" -> Bool(FALSE)

DirectiveOf(d, c) ==
    /\ \A key \in RequiredKeys : Get(d, key) = Get(c, key)
    /\ \A key \in {"select", "where", "sort", "limit", "skip", "justOne"} :
          Get(d, key) = IF HasKey(c, key) THEN Get(c, key) ELSE DefaultOf(key)

C3_PopulateAccumulation ==
    (qb # NoBuilder /\ \A i \in 1..Len(PopulateCalls) : ValidConfig(PopulateCalls[i].args[1]))
        => /\ Len(qb.populateFields.arr) = Len(PopulateCalls)
           /\ \A i \in 1..Len(PopulateCalls) :
                  DirectiveOf(qb.populateFields.arr[i], PopulateCalls[i].args[1])

\* Two populate calls with different valid configs were made.
C3_Witness ==
    /\ Len(PopulateCalls) = 2
    /\ ValidConfig(PopulateCalls[1].args[1])
    /\ ValidConfig(PopulateCalls[2].args[1])
    /\ PopulateCalls[1] # PopulateCalls[2]
    /\ Len(qb.populateFields.arr) = 2

(***************************************************************************)
(* C4  Populate validation, as claimed: a populate call whose config       *)
(* omits field, table or referenceField fails with a ConfigurationError    *)
(* and leaves the builder unchanged.                                       *)
(***************************************************************************)
OmitsRequired(c) == IsObj(c) /\ \E key \in RequiredKeys : IsUndef(Get(c, key))
PopulateOmitting == Called({"populate"}) /\ OmitsRequired(Last(calls').args[1])

ExecsUpTo(i) == Cardinality({j \in 1..i : calls[j].op = "exec"})
SortsBefore(i) == {j \in 1..(i - 1) : calls[j].op = "sort"}

C5_SortOrder ==
    \A i \in 1..Len(calls) :
        (calls[i].op = "exec" /\ SortsBefore(i) # {}) =>
            LET spec == calls[Max(SortsBefore(i))].args[1].obj
                t == Get(wire[ExecsUpTo(i)].search, "sort")
            IN  Len(spec) > 0 =>
                    /\ IsText(t)
                    /\ Len(t.text) = 4 * Len(spec) + 1
                    /\ \A e \in 1..Len(spec) :
                           /\ t.text[4 * e - 2] = Quote(spec[e].k)
                           /\ t.text[4 * e] = ToString(spec[e].v.num)

\* sort({age: -1, name: 1}) was executed.
C5_Witness ==
    /\ calls = << Call("sort", <<Obj(<<Entry("age", Num(-1)), Entry("name", Num(1))>>)>>),
                  Call("exec", <<>>) >>
    /\ Get(Last(wire).search, "sort") =
           Text(<<"{", Quote("age"), ":", "-1", ",", Quote("name"), ":", "1", "}">>)

(***************************************************************************)
(* C6  Arity dispatch, as claimed: where(f, v) and where(f, 'eq', v) both  *)
(* leave the serialized predicate {eq: v} for f.                           *)
(***************************************************************************)
SerializedPredicate(tag, value) ==
    <<"{", Quote(tag), ":">> \o JSONStringify(value) \o <<"}">>
LastWhere == calls # <<>> /\ Last(calls).op = "where"
FilterText(f) == JSONStringify(Get(qb.filters, f.str))

C6_ArityDispatch ==
    LastWhere =>
        LET c == Last(calls)
        IN  /\ Len(c.args) = 2 =>
                  FilterText(c.args[1]) = SerializedPredicate("eq", c.args[2])
            /\ (Len(c.args) = 3 /\ c.args[2] = Str("eq")) =>
                  FilterText(c.args[1]) = SerializedPredicate("eq", c.args[3])

(***************************************************************************)
(* C6, amended: where(f, v) and where(f, '$eq', v) both leave the          *)
(* serialized predicate {$eq: v} for f; a second argument that looks like  *)
(* an operator tag, passed without a third argument, is the value of an    *)
(* equality predicate.                                                     *)
(***************************************************************************)
C6_ArityDispatchTagged ==
    LastWhere =>
        LET c == Last(calls)
        IN  /\ Len(c.args) = 2 =>
                  FilterText(c.args[1]) = SerializedPredicate("$eq", c.args[2])
            /\ (Len(c.args) = 3 /\ c.args[2] = Str("$eq")) =>
                  FilterText(c.args[1]) = SerializedPredicate("$eq", c.args[3])

\* where(f, '$eq', 25) was called, then where(g, '$gte') with two arguments.
C6_Witness ==
    /\ Len(calls) = 2
    /\ calls[1].op = "where" /\ Len(calls[1].args) = 3 /\ calls[1].args[2] = Str("$eq")
    /\ calls[2].op = "where" /\ Len(calls[2].args) = 2 /\ calls[2].args[2] = Str("$gte")
    /\ calls[1].args[1] # calls[2].args[1]
    /\ FilterText(calls[1].args[1]) = <<"{", Quote("$eq"), ":", "25", "}">>
    /\ FilterText(calls[2].args[1]) = <<"{", Quote("$eq"), ":", Quote("$gte"), "}">>

(***************************************************************************)
(* C7  Shorthand equivalence: a call op(f, v) of a shorthand leaves the    *)
(* builder in the state where(f, '$op', v) would leave it; between(f,a,b)  *)
(* in the state of where(f, '$between', [a, b]).                           *)
(***************************************************************************)
C7_ShorthandEquivalence ==
    [][Called(ShorthandOps) =>
          LET c == Last(calls')
          IN  qb' = where(qb, <<c.args[1], Str("$" \o c.op), ValueOf(c)>>)]_vars

\* between(f, 25, 40) was called and the pair is stored low, high.
C7_Witness ==
    /\ calls # <<>>
    /\ Last(calls).op = "between"
    /\ Get(qb.filters, Last(calls).args[1].str) =
           Obj(<<Entry("$between", Arr(<<Num(25), Num(40)>>))>>)

(***************************************************************************)
(* C8  Count derivation: when the transport answers updateOne or           *)
(* updateMany with a list of n records, the verb resolves to               *)
(* {acknowledged: true, matchedCount: n, modifiedCount: n}; when it        *)
(* answers deleteOne or deleteMany with a list of n records, to            *)
(* {acknowledged: true, deletedCount: n}.                                  *)
(***************************************************************************)
Settled(verbs) == outcome # NoOutcome /\ outcome.call.verb \in verbs
\* the transport answered with success and a list of records
AnsweredList ==
    /\ outcome.response.ok
    /\ Get(outcome.response.json, "success") = Bool(TRUE)
    /\ IsArr(Get(outcome.response.json, "data"))
AnsweredRecords == Get(outcome.response.json, "data").arr

C8_CountDerivation ==
    /\ (Settled({"updateOne", "updateMany"}) /\ AnsweredList) =>
           outcome.result =
               Resolved(Obj(<<Entry("acknowledged", Bool(TRUE)),
                              Entry("matchedCount", Num(Len(AnsweredRecords))),
                              Entry("modifiedCount", Num(Len(AnsweredRecords)))>>))
    /\ (Settled({"deleteOne", "deleteMany"}) /\ AnsweredList) =>
           outcome.result =
               Resolved(Obj(<<Entry("acknowledged", Bool(TRUE)),
                              Entry("deletedCount", Num(Len(AnsweredRecords)))>>))

\* updateMany was answered with a list of 3 records.
C8_Witness ==
    /\ Settled({"updateMany"})
    /\ AnsweredList
    /\ Len(AnsweredRecords) = 3
    /\ Get(outcome.result.value, "modifiedCount") = Num(3)

(***************************************************************************)
(* C9  Not found is a value: when the transport answers the query of       *)
(* findOne or findById with an empty list, the call resolves to null; with *)
(* a non-empty list, to the first element of the list.                     *)
(***************************************************************************)
C9_NotFound ==
    (Settled({"findOne", "findById"}) /\ AnsweredList) =>
        IF AnsweredRecords = <<>>
        THEN outcome.result = Resolved(Null)
        ELSE outcome.result = Resolved(AnsweredRecords[1])

\* findOne was answered with the empty list and resolved to null.
C9_Witness ==
    /\ Settled({"findOne"})
    /\ AnsweredList
    /\ AnsweredRecords = <<>>
    /\ outcome.result = Resolved(Null)

(***************************************************************************)
(* C10  Elision for a fresh builder: as long as exec() is the only         *)
(* operation called on the builder of find() without filters, every        *)
(* request sent has none of the keys filters, sort, limit, skip, select,   *)
(* populate.                                                               *)
(***************************************************************************)
QueryKeys == {"filters", "sort", "limit", "skip", "select", "populate"}
OnlyExecCalled == \A i \in 1..Len(calls) : calls[i].op = "exec"

C10_FreshElision ==
    (OnlyExecCalled /\ qb = QueryBuilder(Collection)) =>
        \A i \in 1..Len(wire) :
            \A key \in QueryKeys : ~HasKey(wire[i].search, key)

\* exec() was called on the fresh builder.
C10_Witness ==
    /\ calls = <<Call("exec", <<>>)>>
    /\ qb = QueryBuilder(Collection)
    /\ Len(wire) = 1
    /\ wire[1].search = Obj(<<>>)

(***************************************************************************)
(* C11  Elision of empty values.  Whenever exec() runs on a builder one of *)
(* whose components is empty (filters an empty map, sort an empty map,     *)
(* limit absent, select absent, the empty string or the empty list of      *)
(* field names, populate the empty list), the request it issues has no key *)
(* for that component, and no key of the request holds an empty            *)
(* placeholder.                                                            *)
(***************************************************************************)
EmptyPlaceholders == { Text(<<"{", "}">>), Text(<<"[", "]">>),
                       Text(<<Quote("")>>), Text(<<"null">>) }

C11_EmptyElision ==
    [][Called({"exec"}) =>
          LET search == Last(wire').search
          IN  /\ qb.filters = Obj(<<>>) => ~HasKey(search, "filters")
              /\ qb.sortOptions = Obj(<<>>) => ~HasKey(search, "sort")
              /\ qb.limitValue = Null => ~HasKey(search, "limit")
              /\ qb.selectFields \in {Null, Str(""), Arr(<<>>)} =>
                     ~HasKey(search, "select")
              /\ qb.populateFields = Arr(<<>>) => ~HasKey(search, "populate")
              /\ \A key \in QueryKeys :
                     HasKey(search, key) => Get(search, key) \notin EmptyPlaceholders
      ]_vars

(***************************************************************************)
(* C12  Write flattening.  create(doc) hands the transport exactly one     *)
(* insert request, and the fields list of that request holds one           *)
(* {field_name, field_value} pair per entry of doc, in doc's key order,    *)
(* the name and the value unchanged.                                       *)
(***************************************************************************)
\* the pairs the claim says are sent for the document data
FlattenedPairs(data) ==
    Arr([i \in 1..Len(data.obj) |->
            Obj(<<Entry("field_name", Str(Keys(data)[i])),
                  Entry("field_value", Get(data, Keys(data)[i]))>>)])
\* a call in flight of one of the verbs was answered in this step
Answered(verbs) ==
    /\ calls' = calls
    /\ Len(pending') < Len(pending)
    /\ outcome'.call.verb \in verbs

C12_WriteFlattening ==
    [][/\ Called({"create"}) =>
              LET data == Last(calls').args[1]
              IN  /\ Len(wire') = Len(wire) + 1
                  /\ Last(wire').method = "POST"
                  /\ Last(wire').table = Collection
                  /\ Last(wire').path = "records"
                  /\ Last(wire').body =
                         Text(<<"{", Quote("fields"), ":">>
                              \o JSONStringify(FlattenedPairs(data)) \o <<"}">>)
       /\ Answered({"create"}) => wire' = wire
      ]_vars

\* create({name: 'Jo', age: 30}) sent fields [{name, 'Jo'}, {age, 30}] and was answered.
C12_Witness ==
    /\ calls = <<Call("create", <<Obj(<<Entry("name", Str("Jo")),
                                         Entry("age", Num(30))>>)>>)>>
    /\ Len(wire) = 1
    /\ wire[1].body =
           Text(<<"{", "\"fields\"", ":", "[",
                  "{", "\"field_name\"", ":", "\"name\"", ",",
                       "\"field_value\"", ":", "\"Jo\"", "}", ",",
                  "{", "\"field_name\"", ":", "\"age\"", ",",
                       "\"field_value\"", ":", "30", "}",
                  "]", "}">>)
    /\ Settled({"create"})

(***************************************************************************)
(* C13  findByIdAndUpdate with the return-updated option (options.new).    *)
(* The call first issues the update-by-id request and nothing else; only   *)
(* when that request has succeeded does it issue a fetch-by-id for the     *)
(* same id, and it then settles as that fetch does: with the fetched       *)
(* document, or null when none came back.  When the update fails the call  *)
(* fails with that error and no fetch is issued.                           *)
(***************************************************************************)
ReturnsUpdated(p) == p.verb = "findByIdAndUpdate" /\ Truthy(Get(p.options, "new"))
IsUpdateById(request, id) ==
    request.method = "PATCH" /\ request.path = "records/" \o id.str
IsFetchById(request, id) ==
    /\ request.method = "GET"
    /\ request.path = "records"
    /\ request.search =
           Obj(<<Entry("filters", Text(<<"{", Quote("id"), ":", "{", Quote("$eq"), ":",
                                         Quote(id.str), "}", "}">>)),
                 Entry("limit", Text(<<"1">>))>>)

C13_ReturnUpdated ==
    [][/\ Called({"findByIdAndUpdate"}) =>
              /\ Len(wire') = Len(wire) + 1
              /\ IsUpdateById(Last(wire'), Last(calls').args[1])
       \* the fetch is in flight only after the update has succeeded
       /\ \A i \in 1..Len(pending') :
              (ReturnsUpdated(pending'[i]) /\ pending'[i].method = "query") =>
                  /\ IsResolved(pending'[i].result)
                  /\ IsFetchById(pending'[i].request, pending'[i].id)
                  /\ \E j, k \in 1..Len(wire') :
                         /\ j < k
                         /\ IsUpdateById(wire'[j], pending'[i].id)
                         /\ wire'[k] = pending'[i].request
       \* the answer to the update: a failure ends the call, a success does not
       /\ (Answered({"findByIdAndUpdate"}) /\ ReturnsUpdated(outcome'.call)
              /\ outcome'.call.method = "updateById") =>
              /\ wire' = wire
              /\ IsRejected(outcome'.returned)
              /\ outcome'.result = outcome'.returned
       \* the answer to the fetch settles the call
       /\ (Answered({"findByIdAndUpdate"}) /\ ReturnsUpdated(outcome'.call)
              /\ outcome'.call.method = "query") =>
              /\ wire' = wire
              /\ IsRejected(outcome'.returned) => outcome'.result = outcome'.returned
              /\ IsResolved(outcome'.returned) =>
                     outcome'.result =
                         Resolved(IF Len(outcome'.returned.value.arr) = 0 THEN Null
                                  ELSE outcome'.returned.value.arr[1])
      ]_vars

\* The update succeeded, the fetch was issued after it and answered with the
\* document, and the call resolved to that document.
C13_Witness ==
    /\ Settled({"findByIdAndUpdate"})
    /\ ReturnsUpdated(outcome.call)
    /\ outcome.call.method = "query"
    /\ IsResolved(outcome.call.result)
    /\ Len(wire) = 2
    /\ IsUpdateById(wire[1], Str("user-id"))
    /\ IsFetchById(wire[2], Str("user-id"))
    /\ outcome.result = Resolved(Documents[1])

(***************************************************************************)
(* C14  Thenable equivalence.  then() (and so `await builder`) issues the  *)
(* one transport query that exec() issues on a builder in the same state,  *)
(* for the same collection and with the same query description, and        *)
(* settles with the result or the error exec() settles with.               *)
(***************************************************************************)
C14_ThenableEquivalence ==
    [][/\ Called({"then"}) =>
              /\ wire' = Append(wire, query(qb.collectionName, exec(qb)))
              /\ qb' = qb
       /\ Answered({"then"}) =>
              /\ wire' = wire
              /\ outcome'.result =
                     Settle([outcome'.call EXCEPT !.verb = "exec"], outcome'.response)
      ]_vars

\* then() on a builder limited to 5 sent limit=5 and resolved to the records.
C14_Witness ==
    /\ calls = <<Call("limit", <<Num(5)>>), Call("then", <<>>)>>
    /\ Len(wire) = 1
    /\ Get(wire[1].search, "limit") = Text(<<"5">>)
    /\ Settled({"then"})
    /\ outcome.result = Resolved(Arr(<<Documents[1]>>))

(***************************************************************************)
(* C15  Unwrap-or-fail.  Whatever the transport operation: an answer whose *)
(* envelope says success = true resolves to the envelope's data; an answer *)
(* whose envelope says success = false fails with an error carrying the    *)
(* envelope's message and never resolves; an answer whose protocol status  *)
(* is not a success fails with the status, whatever the envelope holds.    *)
(***************************************************************************)
TransportOperations == {"insertOne", "insertMany", "query", "updateById",
                        "updateOne", "updateMany", "deleteById", "deleteOne",
                        "deleteMany", "count", "exists"}
StatusFailures == {"Failed to insert record: ", "Failed to insert records: ",
                   "Failed to query records: ", "Failed to update record: ",
                   "Failed to update records: ", "Failed to delete record: ",
                   "Failed to delete records: ", "Failed to count records: ",
                   "Failed to check if record exists: "}

C15_UnwrapOrFail ==
    (outcome # NoOutcome) =>
        LET envelope == outcome.response.json
        IN  /\ outcome.call.method \in TransportOperations
            /\ ~outcome.response.ok =>
                   /\ IsRejected(outcome.returned)
                   /\ \E text \in StatusFailures :
                          outcome.returned.error = text \o outcome.response.statusText
            /\ (outcome.response.ok /\ Get(envelope, "success") = Bool(TRUE)) =>
                   outcome.returned = Resolved(Get(envelope, "data"))
            /\ (outcome.response.ok /\ Get(envelope, "success") = Bool(FALSE)) =>
                   outcome.returned = Rejected(Get(envelope, "message").str)

\* exists() was answered success = false and failed with the envelope's message.
C15_Witness ==
    /\ Settled({"exists"})
    /\ outcome.call.method = "exists"
    /\ outcome.response.ok
    /\ Get(outcome.response.json, "success") = Bool(FALSE)
    /\ outcome.returned = Rejected("Record not found")

(***************************************************************************)
(* C16  Failure propagation.  For every verb of DBModel and for exec(),    *)
(* when the transport call fails the verb fails with that same error and   *)
(* has no result.  updateOne, updateMany, deleteOne and deleteMany return  *)
(* a summary only for a transport call that did not fail, and every        *)
(* summary they return has acknowledged = true.                            *)
(***************************************************************************)
SummaryVerbs == {"updateOne", "updateMany", "deleteOne", "deleteMany"}
DBModelVerbs ==
    SummaryVerbs \cup {"create", "insertMany", "findOne", "findById",
                       "findByIdAndUpdate", "findOneAndUpdate", "findByIdAndDelete",
                       "findOneAndDelete", "countDocuments", "exists"}

C16_FailurePropagation ==
    Settled(DBModelVerbs \cup {"exec"}) =>
        /\ IsRejected(outcome.returned) => outcome.result = outcome.returned
        /\ (outcome.call.verb \in SummaryVerbs /\ IsResolved(outcome.result)) =>
               /\ IsResolved(outcome.returned)
               /\ Get(outcome.result.value, "acknowledged") = Bool(TRUE)

\* deleteMany was answered with a status failure and failed with that error.
C16_Witness ==
    /\ Settled({"deleteMany"})
    /\ ~outcome.response.ok
    /\ outcome.returned = Rejected("Failed to delete records: Internal Server Error")
    /\ outcome.result = outcome.returned

(***************************************************************************)
(* C17  Constrained-match shape.  Every request issued for updateOne,      *)
(* findOneAndUpdate, deleteOne and findOneAndDelete carries limit = 1 next *)
(* to the filters; the requests of updateMany and deleteMany carry the     *)
(* filters and no limit key.                                               *)
(***************************************************************************)
\* the JSON text t is an object whose first member is "filters"
StartsWithFilters(t) ==
    /\ IsText(t)
    /\ Len(t.text) >= 3
    /\ SubSeq(t.text, 1, 3) = <<"{", Quote("filters"), ":">>
\* the JSON text t is an object whose last member is "limit": 1
EndsWithLimitOne(t) ==
    /\ IsText(t)
    /\ Len(t.text) >= 5
    /\ SubSeq(t.text, Len(t.text) - 4, Len(t.text)) =
           <<",", Quote("limit"), ":", "1", "}">>
MentionsLimit(t) == \E i \in 1..Len(t.text) : t.text[i] = Quote("limit")

C17_ConstrainedMatch ==
    [][/\ Called({"updateOne", "findOneAndUpdate", "deleteOne", "findOneAndDelete"}) =>
              /\ Len(wire') = Len(wire) + 1
              /\ StartsWithFilters(Last(wire').body)
              /\ EndsWithLimitOne(Last(wire').body)
       /\ Called({"updateMany", "deleteMany"}) =>
              /\ Len(wire') = Len(wire) + 1
              /\ StartsWithFilters(Last(wire').body)
              /\ ~MentionsLimit(Last(wire').body)
      ]_vars

\* findOneAndDelete sent its filters with limit 1; deleteMany sent them alone.
C17_Witness ==
    /\ calls = <<Call("findOneAndDelete", <<Matching>>), Call("deleteMany", <<Matching>>)>>
    /\ Len(wire) = 2
    /\ wire[1].body = Text(<<"{", "\"filters\"", ":", "{", "\"email\"", ":",
                             "\"missing@x.com\"", "}", ",", "\"limit\"", ":", "1", "}">>)
    /\ wire[2].body = Text(<<"{", "\"filters\"", ":", "{", "\"email\"", ":",
                             "\"missing@x.com\"", "}", "}">>)

(***************************************************************************)
(* C18  find is lazy.  find(filters) issues no transport request: it       *)
(* returns a new builder whose filters hold one equality predicate per     *)
(* entry of the filter map and on which nothing else is set.  A query      *)
(* request is issued only when exec() or then() is called.                 *)
(***************************************************************************)
C18_LazyFind ==
    [][/\ (qb = NoBuilder /\ qb' # NoBuilder) =>
              /\ wire' = wire
              /\ pending' = pending
              /\ qb'.collectionName = Collection
              /\ Keys(qb'.filters) = Keys(findArgs')
              /\ \A i \in 1..Len(findArgs'.obj) :
                     qb'.filters.obj[i].v =
                         Obj(<<Entry("$eq", findArgs'.obj[i].v)>>)
              /\ qb'.sortOptions = Obj(<<>>)
              /\ qb'.limitValue = Null
              /\ qb'.skipValue = Num(0)
              /\ qb'.selectFields = Null
              /\ qb'.populateFields = Arr(<<>>)
       /\ wire' # wire => Called({"exec", "then"})
      ]_vars

\* find({age: 25, active: true}) returned its builder and nothing was sent.
C18_Witness ==
    /\ findArgs = Obj(<<Entry("age", Num(25)), Entry("active", Bool(TRUE))>>)
    /\ calls = <<>>
    /\ wire = <<>>
    /\ pending = <<>>
    /\ qb.filters = Obj(<<Entry("age", Obj(<<Entry("$eq", Num(25))>>)),
                          Entry("active", Obj(<<Entry("$eq", Bool(TRUE))>>))>>)

(***************************************************************************)
(* C19  The chained where form of the README and the examples              *)
(* (where('age').gte(25).lte(40), where('status').ne('inactive')): after   *)
(* where(field) followed by a shorthand called with the value alone, the   *)
(* filters hold that shorthand's predicate on the value for field; after   *)
(* where('age').gte(25) they hold gte 25 for age.                          *)
(***************************************************************************)
\* the last two calls are where(field) and a shorthand given one argument
ChainedWhere ==
    /\ Len(calls) >= 2
    /\ calls[Len(calls) - 1].op = "where"
    /\ Len(calls[Len(calls) - 1].args) = 1
    /\ Last(calls).op \in ShorthandOps
    /\ Last(calls).args[2] = Undef

C19_ChainedWhere ==
    ChainedWhere =>
        LET field == calls[Len(calls) - 1].args[1]
            c == Last(calls)
        IN  Get(qb.filters, field.str) = Obj(<<Entry("$" \o c.op, c.args[1])>>)

(***************************************************************************)
(* C20  findOne / findById query shape.  findOne(filters) issues exactly   *)
(* one query, whose filters hold an equality predicate per entry of        *)
(* filters and whose limit is 1.  findById(id) issues exactly the query    *)
(* findOne({id: id}) issues and returns what that findOne returns.         *)
(***************************************************************************)
\* the filters text that holds {$eq: value} for every entry of the map m
EqualityText(m) ==
    Text(JSONStringify(Obj([i \in 1..Len(m.obj) |->
                               Entry(m.obj[i].k, Obj(<<Entry("$eq", m.obj[i].v)>>))])))
\* the query the claim says findOne(m) issues (an empty filters map is left out)
FindOneQuery(m) ==
    Request("GET", Collection, "records",
            Obj((IF m.obj = <<>> THEN <<>> ELSE <<Entry("filters", EqualityText(m))>>)
                \o <<Entry("limit", Text(<<"1">>))>>),
            Undef)

HoldsNothing(builder) ==
    /\ builder.filters = Obj(<<>>)
    /\ builder.sortOptions = Obj(<<>>)
    /\ builder.limitValue = Null
    /\ builder.skipValue = Num(0)
    /\ builder.selectFields = Null
    /\ builder.populateFields = Arr(<<>>)

C21_ConsumedOnce ==
    [][Called({"exec"}) =>
          /\ HoldsNothing(qb')
          /\ (calls # <<>> /\ Last(calls).op = "exec" /\ ~HoldsNothing(qb)) =>
                 Last(wire') # Last(wire)
      ]_vars

(***************************************************************************)
(* C21  Builder lifecycle, as the code has it.  exec() reads the builder   *)
(* and leaves it as it was: after exec() the builder still holds its       *)
(* filters, sort, limit, skip, select and populate, and an exec() that     *)
(* follows another exec() on it issues the same query again.               *)
(***************************************************************************)
C21_BuilderKept ==
    [][Called({"exec"}) =>
          /\ qb' = qb
          /\ Len(wire') = Len(wire) + 1
          /\ (calls # <<>> /\ Last(calls).op = "exec") => Last(wire') = Last(wire)
      ]_vars

\* find({age: 25}) then exec() twice: the same query went out twice and the
\* builder still holds its filter.
C21_Witness ==
    /\ findArgs = Obj(<<Entry("age", Num(25))>>)
    /\ calls = <<Call("exec", <<>>), Call("exec", <<>>)>>
    /\ Len(wire) = 2
    /\ wire[1] = wire[2]
    /\ HasKey(wire[2].search, "filters")
    /\ qb.filters = Obj(<<Entry("age", Obj(<<Entry("$eq", Num(25))>>))>>)

(***************************************************************************)
(* C22  No retry.  Each call of a DBModel verb or of exec() hands the      *)
(* transport exactly one request, whether it succeeds or fails; the only   *)
(* other request ever issued is the fetch of findByIdAndUpdate with        *)
(* options.new, after its update has succeeded.  After a failed request no *)
(* further request is issued for that call.                                *)
(***************************************************************************)
\* this step is findByIdAndUpdate going on from its update to its fetch
GoesOnToFetch ==
    /\ calls' = calls
    /\ Len(pending') = Len(pending)
    /\ \E i \in 1..Len(pending) :
          /\ ReturnsUpdated(pending[i])
          /\ pending[i].method = "updateById"
          /\ pending'[i].method = "query"
          /\ IsResolved(pending'[i].result)

C22_NoRetry ==
    [][/\ Called(DBModelVerbs \cup {"exec"}) => Len(wire') = Len(wire) + 1
       /\ calls' = calls =>
              IF GoesOnToFetch THEN Len(wire') = Len(wire) + 1 ELSE wire' = wire
       /\ (Answered(DBModelVerbs \cup {"exec"}) /\ IsRejected(outcome'.returned)) =>
              /\ wire' = wire
              /\ \E i \in 1..Len(pending) :
                     /\ pending[i] = outcome'.call
                     /\ pending' = Remove(pending, i)
      ]_vars

\* One verb was called, its request failed, and one request is all that was sent.
C22_Witness ==
    /\ Len(calls) = 1
    /\ Settled(DBModelVerbs)
    /\ IsRejected(outcome.returned)
    /\ Len(wire) = 1
    /\ pending = <<>>

(***************************************************************************)
(* C23  insertMany is one batch.  insertMany(docs) flattens each document  *)
(* on its own into its list of {field_name, field_value} pairs and sends   *)
(* the lists in one bulk request, as many as docs and in the order of      *)
(* docs.  The call resolves to the list the transport answers with or      *)
(* fails; it never returns part of a result.                               *)
(***************************************************************************)
C23_OneBatch ==
    [][/\ Called({"insertMany"}) =>
              LET docs == Last(calls').args[1].arr
              IN  /\ Len(wire') = Len(wire) + 1
                  /\ Last(wire').method = "POST"
                  /\ Last(wire').path = "records/bulk"
                  /\ Last(wire').body =
                         Text(<<"{", Quote("records"), ":">>
                              \o JSONStringify(Arr([i \in 1..Len(docs) |->
                                                       FlattenedPairs(docs[i])]))
                              \o <<"}">>)
       /\ Answered({"insertMany"}) =>
              /\ wire' = wire
              /\ IF /\ outcome'.response.ok
                    /\ Get(outcome'.response.json, "success") = Bool(TRUE)
                 THEN outcome'.result = Resolved(Get(outcome'.response.json, "data"))
                 ELSE IsRejected(outcome'.result)
      ]_vars

\* insertMany of two documents sent both field lists, in order, in one request
\* and resolved to the two records the transport answered with.
C23_Witness ==
    /\ calls = <<Call("insertMany", <<Arr(<<Documents[1], Documents[2]>>)>>)>>
    /\ Len(wire) = 1
    /\ wire[1].body =
           Text(<<"{", "\"records\"", ":", "[",
                  "[", "{", "\"field_name\"", ":", "\"id\"", ",",
                            "\"field_value\"", ":", "1", "}", ",",
                       "{", "\"field_name\"", ":", "\"age\"", ",",
                            "\"field_value\"", ":", "25", "}", "]", ",",
                  "[", "{", "\"field_name\"", ":", "\"id\"", ",",
                            "\"field_value\"", ":", "2", "}", ",",
                       "{", "\"field_name\"", ":", "\"age\"", ",",
                            "\"field_value\"", ":", "40", "}", "]",
                  "]", "}">>)
    /\ Settled({"insertMany"})
    /\ outcome.result = Resolved(Arr(<<Documents[1], Documents[2]>>))

(***************************************************************************)
(* C24  Replace semantics of sort, limit, skip and select.  After a call   *)
(* of one of them the builder holds exactly the argument of that call,     *)
(* whatever an earlier call of the same operation has left: sort(s1) then  *)
(* sort(s2) leaves s2 and no field of s1 that is not in s2.                *)
(***************************************************************************)
C24_ReplaceSemantics ==
    [][/\ Called({"sort"}) => qb'.sortOptions = Last(calls').args[1]
       /\ Called({"limit"}) => qb'.limitValue = Last(calls').args[1]
       /\ Called({"skip"}) => qb'.skipValue = Last(calls').args[1]
       /\ Called({"select"}) => qb'.selectFields = Last(calls').args[1]
      ]_vars

\* sort({age: -1, name: 1}) then sort({}): nothing of the first sort is left.
C24_Witness ==
    /\ calls = <<Call("sort", <<Obj(<<Entry("age", Num(-1)), Entry("name", Num(1))>>)>>),
                 Call("sort", <<Obj(<<>>)>>)>>
    /\ qb.sortOptions = Obj(<<>>)

(***************************************************************************)
(* C25  Chaining.  Every fluent operation (where, the ten shorthand        *)
(* predicates, sort, limit, skip, select, populate) returns the instance   *)
(* it was called on and constructs no other, so that a chain of calls      *)
(* works on one single builder: the one find() constructed.                *)
(***************************************************************************)
FluentOps == PredicateOps \cup {"sort", "limit", "skip", "select", "populate"}

C25_Chaining ==
    [][(Called(FluentOps) /\ thrown' = NoError) =>
          /\ self' = self
          /\ made' = made
          /\ self' = 1
      ]_vars

\* where('age', 25).limit(5): both calls were made on the builder find()
\* constructed, which holds the filter and the limit.
C25_Witness ==
    /\ calls = <<Call("where", <<Str("age"), Num(25)>>), Call("limit", <<Num(5)>>)>>
    /\ self = 1
    /\ made = 1
    /\ qb.filters = Obj(<<Entry("age", Obj(<<Entry("$eq", Num(25))>>))>>)
    /\ qb.limitValue = Num(5)

(***************************************************************************)
(* C26  Builder isolation.  Two builders from separate find() calls, on    *)
(* the model of the same or of another collection of one connection,       *)
(* share nothing: whatever the order of the fluent operations and the      *)
(* executions on the two, a call on one leaves the filters, sort, limit,   *)
(* skip, select and populate of the other as they were, and the query a    *)
(* builder sends is the one its own state describes.                       *)
(***************************************************************************)
Component(builder, key) ==
    CASE key = "filters"  -> builder.filters
      [] key = "sort"     -> builder.sortOptions
      [] key = "limit"    -> builder.limitValue
      [] key = "skip"     -> builder.skipValue
      [] key = "select"   -> builder.selectFields
      [] key = "populate" -> builder.populateFields
EmptyValues == {Obj(<<>>), Null, Num(0), Str(""), Arr(<<>>)}
\* request is the query that the state of builder describes
Reflects(request, builder) ==
    /\ request.method = "GET"
    /\ request.table = builder.collectionName
    /\ \A key \in QueryKeys :
           IF HasKey(request.search, key)
           THEN Get(request.search, key) = Text(JSONStringify(Component(builder, key)))
           ELSE Component(builder, key) \in EmptyValues

C26_BuilderIsolation ==
    [][/\ Called(FluentOps \cup {"exec"}) => other' = other
       /\ Called({"exec"}) =>
              /\ wire' = Append(wire, Last(wire'))
              /\ Reflects(Last(wire'), qb)
       /\ Answered({"exec"}) => (qb' = qb /\ other' = other)
       /\ (other.qb # NoBuilder /\ other'.qb # NoBuilder) =>
              other'.qb \in {other.qb, qb}
      ]_vars

\* limit(5) on the users builder, then exec() on the posts builder: the
\* query sent is for posts and has no limit; the users builder keeps its 5.
C26_Witness ==
    /\ made = 2
    /\ calls = <<Call("limit", <<Num(5)>>), Call("exec", <<>>)>>
    /\ other.qb # NoBuilder
    /\ other.qb.collectionName = "users"
    /\ other.qb.limitValue = Num(5)
    /\ qb # NoBuilder
    /\ qb.collectionName = "posts"
    /\ qb.limitValue = Null
    /\ Len(wire) = 1
    /\ wire[1].table = "posts"
    /\ ~HasKey(wire[1].search, "limit")

(***************************************************************************)
(* C27  Snapshot at execution.  The request exec() issues is the query     *)
(* the builder's state describes at the moment exec() is called.  Fluent   *)
(* operations on the same builder after that, while the transport has not  *)
(* answered, change neither the request in flight nor the result: the call *)
(* settles on the request as it was issued and as the answer says.         *)
(***************************************************************************)
C27_SnapshotAtExec ==
    [][/\ Called({"exec"}) =>
              /\ Reflects(Last(wire'), qb)
              /\ Last(pending').request = Last(wire')
       /\ Called(FluentOps) =>
              /\ wire' = wire
              /\ pending' = pending
              /\ outcome' = outcome
       /\ Answered({"exec"}) =>
              /\ \E i \in 1..Len(pending) : pending[i] = outcome'.call
              /\ \E j \in 1..Len(wire) : wire[j] = outcome'.call.request
              /\ IF /\ outcome'.response.ok
                    /\ Get(outcome'.response.json, "success") = Bool(TRUE)
                 THEN outcome'.result = Resolved(Get(outcome'.response.json, "data"))
                 ELSE IsRejected(outcome'.result)
      ]_vars

\* exec(), then limit(5) while the query was in flight, then the answer: the
\* request has no limit and the call resolved to the records answered.
C27_Witness ==
    /\ calls = <<Call("exec", <<>>), Call("limit", <<Num(5)>>)>>
    /\ qb.limitValue = Num(5)
    /\ Len(wire) = 1
    /\ ~HasKey(wire[1].search, "limit")
    /\ Settled({"exec"})
    /\ outcome.call.request = wire[1]
    /\ outcome.result = Resolved(Arr(<<Documents[1]>>))

(***************************************************************************)
(* C28  Frame of the fluent operations.  A predicate-setting operation on  *)
(* field f changes the filters entry of f only: the predicates of all      *)
(* other fields, and the sort, limit, skip, select and populate            *)
(* components, are as before.  sort, limit, skip, select and populate      *)
(* change their own component only.                                        *)
(***************************************************************************)
\* the two builders agree on every predicate except that of field f
SameFiltersBut(before, after, f) ==
    /\ \A i \in 1..Len(before.filters.obj) :
           before.filters.obj[i].k # f =>
               /\ HasKey(after.filters, before.filters.obj[i].k)
               /\ Get(after.filters, before.filters.obj[i].k) = before.filters.obj[i].v
    /\ \A i \in 1..Len(after.filters.obj) :
           after.filters.obj[i].k # f => HasKey(before.filters, after.filters.obj[i].k)

C28_Frame ==
    [][/\ Called(PredicateOps) =>
              /\ SameFiltersBut(qb, qb', PropertyKey(Last(calls').args[1]))
              /\ qb' = [qb EXCEPT !.filters = qb'.filters]
       /\ Called({"sort"}) => qb' = [qb EXCEPT !.sortOptions = qb'.sortOptions]
       /\ Called({"limit"}) => qb' = [qb EXCEPT !.limitValue = qb'.limitValue]
       /\ Called({"skip"}) => qb' = [qb EXCEPT !.skipValue = qb'.skipValue]
       /\ Called({"select"}) => qb' = [qb EXCEPT !.selectFields = qb'.selectFields]
       /\ Called({"populate"}) => qb' = [qb EXCEPT !.populateFields = qb'.populateFields]
      ]_vars

\* eq('name', 25) then gte('age', 25): the predicate of name is as eq left it.
C28_Witness ==
    /\ calls = <<Call("eq", <<Str("name"), Num(25)>>), Call("gte", <<Str("age"), Num(25)>>)>>
    /\ qb.filters = Obj(<<Entry("name", Obj(<<Entry("$eq", Num(25))>>)),
                          Entry("age", Obj(<<Entry("$gte", Num(25))>>))>>)
    /\ qb.sortOptions = Obj(<<>>)
    /\ qb.limitValue = Null

(***************************************************************************)
(* C29  Filter encoding is uniform across verbs.  For one filter map m the *)
(* filters that go on the wire from the read path (find(m), findOne(m))    *)
(* and from updateOne, updateMany, deleteOne, deleteMany, countDocuments   *)
(* and exists have one shape: every field mapped to an {operatorTag:       *)
(* value} predicate, the equality tag for a plain value.                   *)
(***************************************************************************)
\* the JSON text body is an object whose first member is "filters": text
FiltersMemberIs(body, text) ==
    /\ StartsWithFilters(body)
    /\ Len(body.text) >= 3 + Len(text.text)
    /\ SubSeq(body.text, 4, 3 + Len(text.text)) = text.text

C29_UniformEncoding ==
    [][/\ Called({"exec"}) =>
              Get(Last(wire').search, "filters") = EqualityText(findArgs)
       /\ Called({"findOne", "countDocuments", "exists"}) =>
              Get(Last(wire').search, "filters") = EqualityText(Last(calls').args[1])
       /\ Called({"updateOne", "updateMany", "deleteOne", "deleteMany"}) =>
              FiltersMemberIs(Last(wire').body, EqualityText(Last(calls').args[1]))
      ]_vars

====
